---- MODULE Spec2Model ----
(***************************************************************************)
(* Model of oeffimonitor-cli (src/src/main.rs): the feed normalizer        *)
(* (make_api_request), the board formatter (get_departure_board), the      *)
(* frame differ (Buffer::get_diff / Buffer::has_resized) and the refresh   *)
(* loop (main).                                                            *)
(***************************************************************************)
EXTENDS Integers, Sequences, FiniteSets, TLC

VARIABLES
    pc,            \* main: "fetch" | "subframe" | "exited" | "ended" | "panicked" | "stalled"; "call" | "done" in the function specifications
    i,             \* main: loop variable of `for i in 1..11`
    departures,    \* main: first component of make_api_request's Ok value
    traffic_info,  \* main: second component (Option<Vec<WienerLinienTrafficInfo>>)
    prev_buf,      \* main: prev_buf; its content is kept as None for "" and Some(table) for format!("{}", table)
    term,          \* the terminal: what the last sub-frame queued and what it displayed before
    now,           \* the wall clock read by chrono::Local::now(), in seconds, kept below DaySeconds
    failure,       \* why main stopped (error returned from main, or panic site)
    checks,        \* TRUE: integer overflow checks compiled in (debug), FALSE: wrapping (release)
    call,          \* arguments of the function under study
    ret            \* its result

vars == <<pc, i, departures, traffic_info, prev_buf, term, now, failure, checks, call, ret>>

----------------------------------------------------------------------------
(* Bounds of the model *)

\* total number of entries (monitors, lines, departures, traffic notes) in a payload
MaxEntries == 5

\* arguments of get_departure_board taken alone
MaxBoardDeps == 3
MaxNotes == 3
MaxIndex == 3
MaxBoardWidth == 1
MaxBoardHeight == 9

\* the refresh loop: entries of a fetched payload, terminal sizes, clock values
MaxFeedEntries == 3
MaxCols == 2
MaxRows == 7
DaySeconds == 3

\* buffers of get_diff taken alone
MaxWidth == 2
MaxHeight == 1
MaxCells == 3

(* Widths of the machine integers *)
U16 == 65536

(* Last value of the loop variable of `for i in 1..11` *)
LastSubFrame == 10

(* Layout numbers of get_departure_board *)
ReservedRows == 5
RowHeight == 3

(* comfy_table: a word is not cut to fill a line with this few characters free *)
MinFreeChars == 2

----------------------------------------------------------------------------
(* Generic helpers *)

None == [some |-> FALSE, val |-> <<>>]
Some(v) == [some |-> TRUE, val |-> v]

Min(a, b) == IF a <= b THEN a ELSE b
Max(a, b) == IF a >= b THEN a ELSE b

Last(s) == s[Len(s)]

----------------------------------------------------------------------------
(* The feed payload: the text returned by the API, seen as the tree        *)
(* serde_json builds from it.                                              *)

Countdowns == {-1, 0, 1}
FeedCodes == {"ptTram", "ptBusNight", "ptFerry"}

\* one element of data.monitors; `stopOk` says locationStop deserializes,
\* `hasLines` says the "lines" member is an array
NewMonitor(title, stopOk, hasLines) ==
    [title |-> title, stopOk |-> stopOk, hasLines |-> hasLines, lines |-> <<>>]

\* one element of a monitor's lines; `shapeOk` says it deserializes as WienerLinienLine
NewLine(name, shapeOk, code) ==
    [name |-> name, towards |-> name, shapeOk |-> shapeOk, type |-> code, departures |-> <<>>]

\* one element of departures.departure
NewRawDeparture(planned, countdown) ==
    [time_planned |-> planned, time_real |-> None, countdown |-> countdown]

EmptyPayloads ==
    { [kind |-> "json", hasMonitors |-> hm, monitors |-> <<>>, hasTraffic |-> ht, trafficInfos |-> <<>>] :
        hm \in BOOLEAN, ht \in BOOLEAN }

AddMonitor(p, stopOk, hasLines) ==
    [p EXCEPT !.monitors = Append(@, NewMonitor(Len(@) + 1, stopOk, hasLines))]

AddLine(p, shapeOk, code) ==
    LET m == Len(p.monitors)
    IN [p EXCEPT !.monitors[m].lines = Append(@, NewLine(Len(@) + 1, shapeOk, code))]

AddDeparture(p, c) ==
    LET m == Len(p.monitors)
        l == Len(p.monitors[m].lines)
    IN [p EXCEPT !.monitors[m].lines[l].departures = Append(@, NewRawDeparture(Len(@) + 1, c))]

AddNote(p, ok) ==
    [p EXCEPT !.trafficInfos = Append(@, [ok |-> ok, title |-> Len(@) + 1, description |-> Len(@) + 1])]

\* the entries a payload can be extended by, in document order
Entry(t, ok, ok2, code, c) == [t |-> t, ok |-> ok, ok2 |-> ok2, code |-> code, c |-> c]

Entries ==
    { Entry("monitor", s, h, "ptTram", 0) : s \in BOOLEAN, h \in BOOLEAN }
    \cup { Entry("line", TRUE, TRUE, code, 0) : code \in FeedCodes }
    \cup { Entry("line", FALSE, TRUE, "ptTram", 0) }
    \cup { Entry("departure", TRUE, TRUE, "ptTram", c) : c \in Countdowns }
    \cup { Entry("note", ok, TRUE, "ptTram", 0) : ok \in BOOLEAN }

\* entry e can follow the entries of p in a document
CanAdd(p, e) ==
    LET canMon == p.hasMonitors /\ p.trafficInfos = <<>>
        canLine == canMon /\ p.monitors # <<>> /\ Last(p.monitors).hasLines
        canDep == canLine /\ Last(p.monitors).lines # <<>>
                    /\ Last(Last(p.monitors).lines).shapeOk
    IN  CASE e.t = "monitor" -> canMon
          [] e.t = "line" -> canLine
          [] e.t = "departure" -> canDep
          [] OTHER -> p.hasTraffic

Add(p, e) ==
    CASE e.t = "monitor" -> AddMonitor(p, e.ok, e.ok2)
      [] e.t = "line" -> AddLine(p, e.ok, e.code)
      [] e.t = "departure" -> AddDeparture(p, e.c)
      [] OTHER -> AddNote(p, e.ok)

\* number of entries of a payload
RECURSIVE LinesSize(_)
LinesSize(lines) ==
    IF lines = <<>> THEN 0 ELSE 1 + Len(lines[1].departures) + LinesSize(Tail(lines))

RECURSIVE MonitorsSize(_)
MonitorsSize(monitors) ==
    IF monitors = <<>> THEN 0 ELSE 1 + LinesSize(monitors[1].lines) + MonitorsSize(Tail(monitors))

PayloadSize(p) == MonitorsSize(p.monitors) + Len(p.trafficInfos)

----------------------------------------------------------------------------
(* FeedNormalizer: make_api_request and the conversions it calls *)

Ok(deps, traffic) == [kind |-> "ok", departures |-> deps, traffic_info |-> traffic, error |-> "", detail |-> ""]
Err(e, d) == [kind |-> "err", departures |-> <<>>, traffic_info |-> None, error |-> e, detail |-> d]
Panic(site) == [kind |-> "panic", departures |-> <<>>, traffic_info |-> None, error |-> "panic", detail |-> site]

\* the match of Line::from_wiener_linien_line; "panic" is the `_ => panic!` arm
VehicleTypeOf(code) ==
    CASE code = "ptTram" -> "Tram"
      [] code = "ptMetro" -> "Metro"
      [] code = "ptBusCity" -> "CityBus"
      [] code = "ptBusNight" -> "NightBus"
      [] OTHER -> "panic"

from_wiener_linien_line(input) ==
    [name |-> input.name, vehicle_type |-> VehicleTypeOf(input.type)]

from_wiener_linien_api(t_line, t_time_planned, t_time_real, t_countdown, t_station_name) ==
    [line |-> from_wiener_linien_line(t_line),
     time_planned |-> t_time_planned,
     time_real |-> t_time_real,
     countdown |-> t_countdown,
     destination_name |-> t_line.towards,
     station_name |-> t_station_name]

\* impl Ord for Departure
cmp_reversed(self, other) ==
    IF other.countdown < self.countdown THEN "Less"
    ELSE IF other.countdown = self.countdown THEN "Equal" ELSE "Greater"

cmp(self, other) ==
    IF self.countdown < other.countdown THEN "Less"
    ELSE IF self.countdown = other.countdown THEN "Equal" ELSE "Greater"

\* departures.sort(): the stable sort of the slice under cmp
RECURSIVE InsertSorted(_, _)
InsertSorted(sorted, d) ==
    IF sorted = <<>> THEN <<d>>
    ELSE IF cmp(d, sorted[1]) = "Less" THEN <<d>> \o sorted
    ELSE <<sorted[1]>> \o InsertSorted(Tail(sorted), d)

RECURSIVE sort(_)
sort(v) == IF v = <<>> THEN <<>> ELSE InsertSorted(sort(SubSeq(v, 1, Len(v) - 1)), v[Len(v)])

\* first closure (lines 248-270): the outcome of one monitor entry
MonitorOutcome(monitor) ==
    IF ~monitor.stopOk THEN Err("JsonParsingFailed", "locationStop")
    ELSE IF ~monitor.hasLines THEN Err("MissingField", "lines missing or of wrong type")
    ELSE IF \E l \in 1..Len(monitor.lines) : ~monitor.lines[l].shapeOk THEN Panic("unwrap")
    ELSE Ok(<<>>, None)

\* try_for_each: the outcome of the first monitor that does not parse
RECURSIVE ParseMonitors(_)
ParseMonitors(monitors) ==
    IF monitors = <<>> THEN Ok(<<>>, None)
    ELSE IF MonitorOutcome(monitors[1]).kind # "ok" THEN MonitorOutcome(monitors[1])
    ELSE ParseMonitors(Tail(monitors))

\* second closure (lines 272-287): the departures of the lines, in document order
RECURSIVE LineDepartures(_, _, _)
LineDepartures(t_line, deps, title) ==
    IF deps = <<>> THEN <<>>
    ELSE <<from_wiener_linien_api(t_line, deps[1].time_planned, deps[1].time_real,
                                  deps[1].countdown, title)>>
         \o LineDepartures(t_line, Tail(deps), title)

RECURSIVE MonitorDepartures(_, _)
MonitorDepartures(lines, title) ==
    IF lines = <<>> THEN <<>>
    ELSE LineDepartures(lines[1], lines[1].departures, title) \o MonitorDepartures(Tail(lines), title)

RECURSIVE Flatten(_)
Flatten(monitors) ==
    IF monitors = <<>> THEN <<>>
    ELSE MonitorDepartures(monitors[1].lines, monitors[1].title) \o Flatten(Tail(monitors))

\* lines 289-295: all notes or none
parse_traffic_partial(p) ==
    IF ~p.hasTraffic THEN None
    ELSE Some(SelectSeq(p.trafficInfos, LAMBDA n : n.ok))

parse_traffic_info(p) ==
    IF ~p.hasTraffic THEN None
    ELSE IF \A n \in 1..Len(p.trafficInfos) : p.trafficInfos[n].ok
         THEN Some(p.trafficInfos)
         ELSE None

make_api_request(p) ==
    IF p.kind = "transport_error" THEN Err("ApiReqFailed", "")
    ELSE IF p.kind = "invalid_json" THEN Err("JsonParsingFailed", "")
    ELSE IF ~p.hasMonitors THEN Err("MissingField", "monitors")
    ELSE IF ParseMonitors(p.monitors).kind # "ok" THEN ParseMonitors(p.monitors)
    ELSE LET flat == Flatten(p.monitors)
         IN IF \E k \in 1..Len(flat) : flat[k].line.vehicle_type = "panic"
            THEN Panic("Unknown vehicle type!")
            ELSE Ok(sort(flat), parse_traffic_info(p))

----------------------------------------------------------------------------
(* BoardFormatter: get_departure_board *)

HeaderRow == [kind |-> "header"]
BlankRow == [kind |-> "blank"]

\* the time shown for a departure: time_real if present, else time_planned
DisplayTime(dep) == IF dep.time_real.some THEN dep.time_real.val ELSE dep.time_planned

DepartureRow(dep) ==
    [kind |-> "departure", time |-> DisplayTime(dep), countdown |-> dep.countdown,
     line |-> dep.line.name, station |-> dep.station_name, destination |-> dep.destination_name]

\* `height - 5` on u16 (lines 323 and 352): "overflow" where the checked build panics
HeightMinus5(height, checked) ==
    IF height >= ReservedRows THEN height - ReservedRows
    ELSE IF checked THEN -1
    ELSE (height - ReservedRows) % U16

\* lines 325-350: one row for each of the first content_height / 3 departures
RECURSIVE DepartureRows(_, _)
DepartureRows(deps, n) ==
    IF n = 0 \/ deps = <<>> THEN <<>>
    ELSE <<DepartureRow(deps[1])>> \o DepartureRows(Tail(deps), n - 1)

\* lines 359-378: the footer row, or the error of a missing note
FooterRowZeroBased(trafficinfo, index, clock) ==
    IF ~index.some THEN [ok |-> TRUE, row |-> [kind |-> "footer", clock |-> clock, note |-> None, label |-> <<0, 0>>]]
    ELSE IF ~trafficinfo.some THEN [ok |-> FALSE, row |-> BlankRow]
    ELSE IF index.val >= Len(trafficinfo.val) THEN [ok |-> FALSE, row |-> BlankRow]
    ELSE [ok |-> TRUE,
          row |-> [kind |-> "footer", clock |-> clock,
                   note |-> Some(trafficinfo.val[index.val + 1]),
                   label |-> <<index.val, Len(trafficinfo.val)>>]]

FooterRow(trafficinfo, index, clock) ==
    IF ~index.some THEN [ok |-> TRUE, row |-> [kind |-> "footer", clock |-> clock, note |-> None, label |-> <<0, 0>>]]
    ELSE IF ~trafficinfo.some THEN [ok |-> FALSE, row |-> BlankRow]
    ELSE IF index.val >= Len(trafficinfo.val) THEN [ok |-> FALSE, row |-> BlankRow]
    ELSE [ok |-> TRUE,
          row |-> [kind |-> "footer", clock |-> clock,
                   note |-> Some(trafficinfo.val[index.val + 1]),
                   label |-> <<index.val + 1, Len(trafficinfo.val)>>]]

BoardOk(table) == [kind |-> "ok", table |-> table, error |-> ""]
BoardErr(e) == [kind |-> "err", table |-> [width |-> 0, rows |-> <<>>], error |-> e]
\* a panic of the checked build
BoardPanic(site) == [kind |-> "panic", table |-> [width |-> 0, rows |-> <<>>], error |-> site]
\* the unchecked build: the loop of line 354 runs 2^64 - k times, adding a row
\* each time, and the call never returns
BoardNoReturn(site) == [kind |-> "no_return", table |-> [width |-> 0, rows |-> <<>>], error |-> site]

get_departure_board(deps, trafficinfo, traffic_info_index, width, height, clock, checked) ==
    LET content_height == HeightMinus5(height, checked)
        body == DepartureRows(deps, content_height \div RowHeight)
        footer == FooterRow(trafficinfo, traffic_info_index, clock)
    IN  IF content_height < 0 THEN BoardPanic("height - 5")
        ELSE IF Len(deps) < content_height
             \* number_of_blanks = departures.len() - (height - 5), below zero on usize
             THEN IF checked THEN BoardPanic("number_of_blanks")
                  ELSE BoardNoReturn("number_of_blanks")
        ELSE IF ~footer.ok THEN BoardErr("IndexOutOfBoundsError")
        ELSE BoardOk([width |-> width, rows |-> <<HeaderRow>> \o body \o <<footer.row>>])

----------------------------------------------------------------------------
(* FrameDiffer: Buffer *)

Buffer(width, height, content) == [width |-> width, height |-> height, content |-> content]

\* Buffer::get_diff; "panic" is the remainder by a zero width
get_diff(self, other) ==
    LET n == Min(Len(self.content), Len(other.content))
        differing == SelectSeq([k \in 1..n |-> k], LAMBDA k : self.content[k] # other.content[k])
    IN  IF differing # <<>> /\ self.width = 0
        THEN [kind |-> "panic", updates |-> <<>>]
        ELSE [kind |-> "ok",
              updates |-> [j \in 1..Len(differing) |->
                            <<((differing[j] - 1) % U16) % self.width,
                              ((differing[j] - 1) % U16) \div self.width,
                              self.content[differing[j]]>>]]

has_resized_width_only(self, other) == self.width # other.width

has_resized(self, other) == self.width # other.width \/ self.height # other.height

----------------------------------------------------------------------------
(* Specification of the normalizer alone: the API's response is received   *)
(* entry by entry, then make_api_request runs on it.                       *)

NoCall == [kind |-> "none"]
NoRet == [kind |-> "none", departures |-> <<>>, traffic_info |-> None, error |-> "", detail |-> ""]

Idle ==
    /\ i = 0
    /\ departures = <<>>
    /\ traffic_info = None
    /\ prev_buf = [width |-> 0, height |-> 0, content |-> None]
    /\ term = [op |-> "none", dims |-> <<-1, -1>>, resized |-> FALSE, changed |-> FALSE,
              pending |-> "nothing", pending_dims |-> <<-1, -1>>]
    /\ now = 0
    /\ failure = "none"

IdleUnchanged == UNCHANGED <<i, departures, traffic_info, prev_buf, term, now, failure, checks>>

InitNormalize ==
    /\ Idle
    /\ checks = TRUE
    /\ pc = "call"
    /\ call \in EmptyPayloads
    /\ ret = NoRet

\* the response grows by one entry
ReceiveEntry(at, limit) ==
    /\ pc = at
    /\ call.kind = "json"
    /\ PayloadSize(call) < limit
    /\ \E e \in Entries : CanAdd(call, e) /\ call' = Add(call, e)

\* the request fails, or the text is no JSON
ReceiveFailure(at) ==
    /\ pc = at
    /\ call \in EmptyPayloads
    /\ call' \in { [kind |-> "transport_error"], [kind |-> "invalid_json"] }

Receive ==
    /\ ReceiveEntry("call", MaxEntries)
    /\ UNCHANGED <<pc, ret>>
    /\ IdleUnchanged

ReceiveBroken ==
    /\ ReceiveFailure("call")
    /\ UNCHANGED <<pc, ret>>
    /\ IdleUnchanged

Normalize ==
    /\ pc = "call"
    /\ ret' = make_api_request(call)
    /\ pc' = "done"
    /\ UNCHANGED call
    /\ IdleUnchanged

NextNormalize == Receive \/ ReceiveBroken \/ Normalize

SpecNormalize == InitNormalize /\ [][NextNormalize]_vars

----------------------------------------------------------------------------
(* RefreshLoop: main *)

\* format!("{}", n) of an integer
Digit(n) == <<"0", "1", "2", "3", "4", "5", "6", "7", "8", "9">>[n + 1]

RECURSIVE Digits(_)
Digits(n) == IF n < 10 THEN <<Digit(n)>> ELSE Digits(n \div 10) \o <<Digit(n % 10)>>

Decimal(n) == IF n < 0 THEN <<"-">> \o Digits(-n) ELSE Digits(n)

\* format!("{:02}", n) of a number that is not negative
Pad2(n) == IF n < 10 THEN <<"0">> \o Digits(n) ELSE Digits(n)

\* the strings of the feed: the model names a line, a station, a destination
\* and a note by a number, which stands for these texts
LineText(n) == <<"L">> \o Decimal(n)
StationText(n) == <<"T">> \o Decimal(n)
DestinationText(n) == <<"D">> \o Decimal(n)
TitleText(n) == <<"N">> \o Decimal(n)
DescriptionText(n) == <<"d", "e", "s", "c">> \o Decimal(n)

\* a time of day is counted in minutes since midnight, the clock in seconds
Hour(t) == (t \div 60) % 24
Minute(t) == t % 60

\* lines 332-345: format!("{:02}:{:02} (+{})", hour, minute, countdown)
DepartureText(time, countdown) ==
    Pad2(Hour(time)) \o <<":">> \o Pad2(Minute(time)) \o <<" ", "(", "+">>
    \o Decimal(countdown) \o <<")">>

\* lines 360 and 371, 377: date.format("%H:%M:%S")
ClockText(clock) ==
    Pad2((clock \div 3600) % 24) \o <<":">> \o Pad2((clock \div 60) % 60) \o <<":">> \o Pad2(clock % 60)

\* line 321: the header cells
HeaderCells ==
    << <<"D", "e", "p", "a", "r", "t", "u", "r", "e">>,
       <<"L", "i", "n", "e">>,
       <<"C", "l", "o", "s", "e", "s", "t", " ", "s", "t", "a", "t", "i", "o", "n">>,
       <<"D", "e", "s", "t", "i", "n", "a", "t", "i", "o", "n">> >>

\* the cell texts get_departure_board hands to the table for a row
Cells(row) ==
    CASE row.kind = "header" -> HeaderCells
      [] row.kind = "departure" ->
            <<DepartureText(row.time, row.countdown), LineText(row.line),
              StationText(row.station), DestinationText(row.destination)>>
      [] row.kind = "footer" ->
            IF row.note.some
            THEN <<ClockText(row.clock),
                   Decimal(row.label[1]) \o <<"/">> \o Decimal(row.label[2]),
                   TitleText(row.note.val.title),
                   DescriptionText(row.note.val.description)>>
            ELSE <<ClockText(row.clock)>>
      [] OTHER -> <<>>

\* The table printed by format!("{}", board) (lines 461-465) is laid out by
\* the comfy_table library as lines 316-321 configure it: preset UTF8_FULL
\* with UTF8_ROUND_CORNERS, one blank of padding on each side of a cell,
\* ContentArrangement::DynamicFullWidth within set_width(width). A character
\* of the text is one element of a sequence; a box-drawing character is
\* named by its code point.
LeftBorder == "U+2502"
RightBorder == "U+2502"
TopBorder == "U+2500"
BottomBorder == "U+2500"
LeftHeaderIntersection == "U+255E"
HeaderLines == "U+2550"
MiddleHeaderIntersections == "U+256A"
RightHeaderIntersection == "U+2561"
VerticalLines == "U+2506"
HorizontalLines == "U+254C"
MiddleIntersections == "U+253C"
LeftBorderIntersections == "U+251C"
RightBorderIntersections == "U+2524"
TopBorderIntersections == "U+252C"
BottomBorderIntersections == "U+2534"
TopLeftCorner == "U+256D"
TopRightCorner == "U+256E"
BottomLeftCorner == "U+2570"
BottomRightCorner == "U+256F"

Repeat(ch, n) == [k \in 1..n |-> ch]

\* line.split(' ')
RECURSIVE split_line_by_delimiter(_)
split_line_by_delimiter(line) ==
    IF \E k \in 1..Len(line) : line[k] = " "
    THEN LET k == CHOOSE k \in 1..Len(line) :
                    line[k] = " " /\ \A j \in 1..(k - 1) : line[j] # " "
         IN  <<SubSeq(line, 1, k - 1)>> \o split_line_by_delimiter(SubSeq(line, k + 1, Len(line)))
    ELSE <<line>>

\* a line is complete once fewer than MinFreeChars + 1 characters are free in it
check_if_full(current_line, content_width) ==
    Len(current_line) > Max(content_width - MinFreeChars, 0)

\* the wrapping of one line of a cell to content_width: words are kept whole
\* where they fit, a word longer than the column is cut
RECURSIVE SplitLoop(_, _, _, _)
SplitLoop(elements, current_line, lines, content_width) ==
    IF elements = <<>>
    THEN IF current_line # <<>> THEN Append(lines, current_line) ELSE lines
    ELSE LET next == Head(elements)
             fresh == current_line = <<>>
             added_length == Len(next) + Len(current_line) + (IF fresh THEN 0 ELSE 1)
             remaining_width ==
                IF fresh THEN content_width - Len(current_line)
                ELSE Max(content_width - Len(current_line) - 1, 0)
             joined == (IF fresh THEN <<>> ELSE current_line \o <<" ">>) \o next
             cut == (IF fresh THEN <<>> ELSE current_line \o <<" ">>) \o SubSeq(next, 1, remaining_width)
         IN  IF added_length <= content_width
             THEN IF check_if_full(joined, content_width)
                  THEN SplitLoop(Tail(elements), <<>>, Append(lines, joined), content_width)
                  ELSE SplitLoop(Tail(elements), joined, lines, content_width)
             ELSE IF ~fresh /\ remaining_width <= MinFreeChars
             THEN SplitLoop(elements, <<>>, Append(lines, current_line), content_width)
             ELSE IF Len(next) > content_width
             THEN SplitLoop(<<SubSeq(next, remaining_width + 1, Len(next))>> \o Tail(elements),
                            <<>>, Append(lines, cut), content_width)
             ELSE IF check_if_full(next, content_width)
                  THEN SplitLoop(Tail(elements), <<>>, Append(Append(lines, current_line), next), content_width)
                  ELSE SplitLoop(Tail(elements), next, Append(lines, current_line), content_width)

split_line(line, content_width) ==
    SplitLoop(split_line_by_delimiter(line), <<>>, <<>>, content_width)

\* the lines a cell is printed on in a column of content_width characters
CellLines(text, content_width) ==
    IF Len(text) > content_width THEN split_line(text, content_width) ELSE <<text>>

RECURSIVE MaxOf(_)
MaxOf(numbers) == IF numbers = <<>> THEN 0 ELSE Max(numbers[1], MaxOf(Tail(numbers)))

\* the texts of column c, of the rows that have such a cell
ColumnCells(grid, c) ==
    LET having == SelectSeq(grid, LAMBDA cells : c <= Len(cells))
    IN  [r \in 1..Len(having) |-> having[r][c]]

max_content_width(grid, c) ==
    LET texts == ColumnCells(grid, c) IN MaxOf([r \in 1..Len(texts) |-> Len(texts[r])])

longest_line_after_split(average_space, grid, c) ==
    LET texts == ColumnCells(grid, c)
        longest(text) ==
            IF Len(text) > average_space
            THEN LET parts == split_line(text, Max(average_space, 1))
                 IN  MaxOf([p \in 1..Len(parts) |-> Len(parts[p])])
            ELSE Len(text)
    IN  MaxOf([r \in 1..Len(texts) |-> longest(texts[r])])

\* a column gets the width it is given, at least 1; 0 marks a column not yet set
Fixed(st, c, width) ==
    [widths |-> [st.widths EXCEPT ![c] = Max(width, 1)],
     remaining_width |-> Max(st.remaining_width - width, 0),
     remaining_columns |-> st.remaining_columns - 1,
     found |-> TRUE]

\* columns whose longest text fits into the average of the space left keep it
RECURSIVE FitPass(_, _, _)
FitPass(grid, st, c) ==
    IF c > Len(st.widths) \/ st.remaining_columns = 0 THEN st
    ELSE IF st.widths[c] = 0
            /\ max_content_width(grid, c) <= st.remaining_width \div st.remaining_columns
         THEN FitPass(grid, Fixed(st, c, max_content_width(grid, c)), c + 1)
         ELSE FitPass(grid, st, c + 1)

RECURSIVE find_columns_that_fit_into_average(_, _)
find_columns_that_fit_into_average(grid, st) ==
    LET after == FitPass(grid, [st EXCEPT !.found = FALSE], 1)
    IN  IF after.found THEN find_columns_that_fit_into_average(grid, after) ELSE after

\* columns that, wrapped to the average, leave 3 characters or more free are
\* set to their longest wrapped line
RECURSIVE SplitPass(_, _, _)
SplitPass(grid, st, c) ==
    IF c > Len(st.widths) \/ st.remaining_columns = 0 THEN st
    ELSE LET average_space == st.remaining_width \div st.remaining_columns
             longest_line == longest_line_after_split(average_space, grid, c)
         IN  IF st.widths[c] = 0 /\ Max(average_space - longest_line, 0) >= 3
             THEN SplitPass(grid, Fixed(st, c, longest_line), c + 1)
             ELSE SplitPass(grid, st, c + 1)

RECURSIVE optimize_space_after_split(_, _)
optimize_space_after_split(grid, st) ==
    LET after == SplitPass(grid, [st EXCEPT !.found = FALSE], 1)
    IN  IF after.found THEN optimize_space_after_split(grid, after) ELSE after

\* the number of columns before c that are not set
Unset(st, c) == Cardinality({ b \in 1..(c - 1) : st.widths[b] = 0 })

\* the columns left share the space left, the first ones taking the excess
distribute_remaining_space(st) ==
    LET average_space == st.remaining_width \div st.remaining_columns
        excess == st.remaining_width % st.remaining_columns
    IN  [c \in 1..Len(st.widths) |->
            IF st.widths[c] # 0 THEN st.widths[c]
            ELSE Max(average_space + (IF Unset(st, c) < excess THEN 1 ELSE 0), 1)]

\* DynamicFullWidth: room left over when all columns are set widens them
use_full_width(st) ==
    LET columns == Len(st.widths)
        average_space == st.remaining_width \div columns
        excess == st.remaining_width % columns
    IN  [c \in 1..columns |-> st.widths[c] + average_space + (IF c <= excess THEN 1 ELSE 0)]

\* the content width of every column of a table of table_width characters
arrange(grid, columns, table_width) ==
    LET start == [widths |-> [c \in 1..columns |-> 0],
                  \* the borders and the padding are taken off first
                  remaining_width |-> Max(table_width - (columns + 1) - 2 * columns, 0),
                  remaining_columns |-> columns,
                  found |-> FALSE]
        st == optimize_space_after_split(grid, find_columns_that_fit_into_average(grid, start))
    IN  IF columns = 0 THEN <<>>
        ELSE IF st.remaining_columns = 0 THEN use_full_width(st)
        ELSE distribute_remaining_space(st)

\* a border line: a piece of `line` for every column, `middle` between them
RECURSIVE BorderPieces(_, _, _, _)
BorderPieces(widths, c, line, middle) ==
    IF c > Len(widths) THEN <<>>
    ELSE (IF c > 1 THEN <<middle>> ELSE <<>>) \o Repeat(line, widths[c] + 2)
         \o BorderPieces(widths, c + 1, line, middle)

BorderLine(widths, left, line, middle, right) ==
    <<left>> \o BorderPieces(widths, 1, line, middle) \o <<right>>

\* line j of a row: every cell aligned to the left in its column, padded
RECURSIVE RowPieces(_, _, _, _)
RowPieces(lines, widths, c, j) ==
    IF c > Len(widths) THEN <<>>
    ELSE LET text == IF j <= Len(lines[c]) THEN lines[c][j] ELSE <<>>
         IN  (IF c > 1 THEN <<VerticalLines>> ELSE <<>>)
             \o <<" ">> \o text \o Repeat(" ", widths[c] - Len(text)) \o <<" ">>
             \o RowPieces(lines, widths, c + 1, j)

RECURSIVE RowLines(_, _, _)
RowLines(lines, widths, j) ==
    IF j > MaxOf([c \in 1..Len(widths) |-> Len(lines[c])]) THEN <<>>
    ELSE <<LeftBorder>> \o RowPieces(lines, widths, 1, j) \o <<RightBorder, "\n">>
         \o RowLines(lines, widths, j + 1)

\* the lines of one row of the table; a row with fewer cells is filled up
RenderRow(cells, widths) ==
    RowLines([c \in 1..Len(widths) |->
                IF c <= Len(cells) THEN CellLines(cells[c], widths[c]) ELSE <<>>],
             widths, 1)

\* the header line, the double line under it, the rows with a line between them
RECURSIVE RenderRows(_, _, _)
RenderRows(grid, widths, r) ==
    IF r > Len(grid) THEN <<>>
    ELSE (IF r = 2 THEN BorderLine(widths, LeftHeaderIntersection, HeaderLines,
                                   MiddleHeaderIntersections, RightHeaderIntersection) \o <<"\n">>
          ELSE IF r > 2 THEN BorderLine(widths, LeftBorderIntersections, HorizontalLines,
                                        MiddleIntersections, RightBorderIntersections) \o <<"\n">>
          ELSE <<>>)
         \o RenderRow(grid[r], widths)
         \o RenderRows(grid, widths, r + 1)

\* format!("{}", board): the lines joined by "\n"
Render(table) ==
    LET grid == [r \in 1..Len(table.rows) |-> Cells(table.rows[r])]
        columns == MaxOf([r \in 1..Len(grid) |-> Len(grid[r])])
        widths == arrange(grid, columns, table.width)
    IN  BorderLine(widths, TopLeftCorner, TopBorder, TopBorderIntersections, TopRightCorner) \o <<"\n">>
        \o RenderRows(grid, widths, 1)
        \o BorderLine(widths, BottomLeftCorner, BottomBorder, BottomBorderIntersections, BottomRightCorner)

\* `width -= 1` on u16 (lines 442-443): -1 where the checked build panics
Decrement(v, checked) ==
    IF v >= 1 THEN v - 1
    ELSE IF checked THEN -1
    ELSE (v - 1) % U16

\* the payloads the API can answer a request with
RECURSIVE PayloadsOfSize(_)
PayloadsOfSize(n) ==
    IF n = 0 THEN EmptyPayloads
    ELSE { Add(pe[1], pe[2]) : pe \in { q \in PayloadsOfSize(n - 1) \X Entries : CanAdd(q[1], q[2]) } }

FeedPayloads ==
    UNION { PayloadsOfSize(n) : n \in 0..MaxFeedEntries }
    \cup { [kind |-> "transport_error"], [kind |-> "invalid_json"] }

\* what make_api_request makes of them
FeedOutcomes == { make_api_request(p) : p \in FeedPayloads }

\* the readings of the wall clock: it is set by the system and can step
\* forward or back between two readings, or stand still
Clock == 0..(DaySeconds - 1)

\* the values `width` and `height` can have after lines 442-443
Sizes(most) == { Decrement(v, k) : v \in 0..most, k \in BOOLEAN } \ {-1}

\* the boards and the tables main can get from get_departure_board
Boards ==
    { get_departure_board(r.departures, r.traffic_info, None, w, h, c, k) :
        r \in { o \in FeedOutcomes : o.kind = "ok" },
        w \in Sizes(MaxCols), h \in Sizes(MaxRows), c \in Clock, k \in BOOLEAN }

Tables == { b.table : b \in { o \in Boards : o.kind = "ok" } }

\* The text of a table is a function of the table. A buffer of main keeps, in
\* place of the characters of its content, what they were printed from: None
\* for the "" of line 437, Some(table) for format!("{}", table) of line 464.
\* Frames pairs every such content with its characters, laid out once
Frames == { <<None, <<>>>> } \cup { <<Some(t), Render(t)>> : t \in Tables }

\* a buffer of main is as wide as the table it holds, the first one 0
WidthOf(content) == IF content.some THEN content.val.width ELSE 0

Pairs(S) == S \X S

\* get_diff on the characters of every two contents of equal width, worked
\* out once
Diffs ==
    { <<<<p[1][1], p[2][1]>>,
        get_diff(Buffer(WidthOf(p[1][1]), 0, p[1][2]), Buffer(WidthOf(p[2][1]), 0, p[2][2]))>> :
        p \in { q \in Pairs(Frames) : WidthOf(q[1][1]) = WidthOf(q[2][1]) } }

\* cur_buf.get_diff(&prev_buf) of line 472, called on buffers of equal width
FrameDiff(cur_buf, previous) ==
    (CHOOSE d \in Diffs : d[1] = <<cur_buf.content, previous.content>>)[2]

NoFrame == <<-1, -1>>
Dims(buf) == <<buf.width, buf.height>>

\* the terminal before anything is drawn: `op` is what the last sub-frame
\* queued, `dims` the size of the frame on the screen, `resized` whether that
\* sub-frame's buffer differed in size from the buffer it was compared with,
\* `changed` whether it differed in size from the frame on the screen before
\* `pending` is what a failed write left in the buffer of stdout: "nothing",
\* the "clear" sequence of reset(), or the end of a "frame" of size `pending_dims`
NoDraw ==
    [op |-> "none", dims |-> NoFrame, resized |-> FALSE, changed |-> FALSE,
     pending |-> "nothing", pending_dims |-> NoFrame]

InitMain ==
    /\ pc = "fetch"
    /\ i = 0
    /\ departures = <<>>
    /\ traffic_info = None
    /\ prev_buf = Buffer(0, 0, None)
    /\ term = NoDraw
    /\ now = 0
    /\ failure = "none"
    /\ checks \in BOOLEAN
    /\ call = NoCall
    /\ ret = NoRet

Stop(to, why) ==
    /\ pc' = to
    /\ failure' = why
    /\ UNCHANGED <<i, departures, traffic_info, prev_buf, term, now, checks, call, ret>>

\* lines 433-437: make_api_request().await.context(..)? and the fresh prev_buf
Fetch ==
    /\ pc = "fetch"
    /\ \E r \in FeedOutcomes :
        CASE r.kind = "ok" ->
                /\ departures' = r.departures
                /\ traffic_info' = r.traffic_info
                /\ prev_buf' = Buffer(0, 0, None)
                /\ i' = 1
                /\ pc' = "subframe"
                /\ now' \in Clock
                /\ UNCHANGED <<term, failure, checks, call, ret>>
          [] r.kind = "err" -> Stop("exited", r.error)
          [] OTHER -> Stop("panicked", r.detail)

\* the terminal after a sub-frame that queued `op` and left a frame of size `dims`
Screen(cur_buf, op, dims) ==
    [op |-> op, dims |-> dims,
     resized |-> Dims(cur_buf) # Dims(prev_buf),
     changed |-> Dims(cur_buf) # term.dims,
     pending |-> "nothing", pending_dims |-> NoFrame]

\* lines 461-487, once the board is there: compare, draw, prev_buf = cur_buf,
\* sleep(1 s); the next pass reads the clock anew.
\* After the last sub-frame the values of the cycle go out of scope
Draw(cur_buf) ==
    LET resized == has_resized(cur_buf, prev_buf)
        diff == FrameDiff(cur_buf, prev_buf)
    IN  IF ~resized /\ diff.kind = "panic"
        THEN /\ pc' = "panicked"
             /\ failure' = "get_diff"
             /\ term' = Screen(cur_buf, "diff_panicked", term.dims)
             /\ UNCHANGED <<i, departures, traffic_info, prev_buf, now, checks, call, ret>>
        ELSE /\ term' = Screen(cur_buf, IF resized THEN "clear_redraw" ELSE "diff", Dims(cur_buf))
             /\ now' \in Clock
             /\ IF i = LastSubFrame
                THEN /\ pc' = "fetch"
                     /\ i' = 0
                     /\ departures' = <<>>
                     /\ traffic_info' = None
                     /\ prev_buf' = Buffer(0, 0, None)
                ELSE /\ pc' = "subframe"
                     /\ i' = i + 1
                     /\ prev_buf' = cur_buf
                     /\ UNCHANGED <<departures, traffic_info>>
             /\ UNCHANGED <<failure, checks, call, ret>>

\* lines 440-459: the board of a terminal of `cols` columns and `rows` rows
Board(cols, rows) ==
    get_departure_board(departures, traffic_info, None,
                        Decrement(cols, checks), Decrement(rows, checks), now, checks)

\* lines 439-488: one pass of the body of `for i in 1..11`
SubFrame ==
    /\ pc = "subframe"
    /\ \E cols \in 0..MaxCols, rows \in 0..MaxRows :
        LET width == Decrement(cols, checks)
            height == Decrement(rows, checks)
            board == Board(cols, rows)
        IN  IF width < 0 THEN Stop("panicked", "width -= 1")
            ELSE IF height < 0 THEN Stop("panicked", "height -= 1")
            \* i % traffic.len()
            ELSE IF traffic_info.some /\ Len(traffic_info.val) = 0
                 THEN Stop("panicked", "traffic_info_index")
            ELSE IF board.kind = "panic" THEN Stop("panicked", board.error)
            ELSE IF board.kind = "no_return" THEN Stop("stalled", board.error)
            ELSE IF board.kind = "err" THEN Stop("exited", board.error)
            ELSE Draw(Buffer(width, height, Some(board.table)))

\* the terminal when a flush has failed: the bytes not written stay in the
\* buffer of stdout
Unflushed(cur_buf, op, dims, what) ==
    [Screen(cur_buf, op, dims) EXCEPT
        !.pending = what,
        !.pending_dims = IF what = "frame" THEN Dims(cur_buf) ELSE NoFrame]

\* main returns the error of a write to the terminal
Fail(why, screen) ==
    /\ pc' = "exited"
    /\ failure' = why
    /\ term' = screen
    /\ UNCHANGED <<i, departures, traffic_info, prev_buf, now, checks, call, ret>>

\* lines 467-484: reset(), queue!, flush() or execute! returns an error. What
\* was written before stays on the terminal: after reset() the screen is
\* cleared, after flush() it shows the new frame. reset() is execute! on
\* stdout: when its flush fails the old frame stays and the clear sequence is
\* left in the buffer; queue!(Print(content)) writes the lines through and
\* buffers the last one; flush() of line 482 leaves what it could not write
DrawFailure(cur_buf) ==
    LET resized == has_resized(cur_buf, prev_buf)
        diff == FrameDiff(cur_buf, prev_buf)
    IN  \/ /\ resized
           /\ \/ Fail("Failed to reset terminal after resize",
                    Unflushed(cur_buf, "reset_failed", term.dims, "clear"))
              \/ Fail("Failed to queue redraw", Screen(cur_buf, "cleared", NoFrame))
              \/ Fail("Failed to write table to stdout", Unflushed(cur_buf, "cleared", NoFrame, "frame"))
              \/ Fail("Failed to reset cursor", Screen(cur_buf, "clear_redraw", Dims(cur_buf)))
        \/ /\ ~resized
           /\ diff.kind = "ok"
           /\ \/ /\ diff.updates # <<>>
                 /\ \E why \in {"Failed to queue move", "Failed to queue print"} :
                        Fail(why, Screen(cur_buf, "diff_failed", term.dims))
              \/ Fail("Failed to write table to stdout", Unflushed(cur_buf, "diff_failed", term.dims, "frame"))
              \/ Fail("Failed to reset cursor", Screen(cur_buf, "diff", Dims(cur_buf)))

\* size() returns an error (line 440), or a write of a sub-frame that got
\* its board does
TerminalError ==
    /\ pc = "subframe"
    /\ \/ Stop("exited", "Could not determine terminal size!")
       \/ \E cols \in 0..MaxCols, rows \in 0..MaxRows :
            /\ Decrement(cols, checks) >= 0
            /\ Decrement(rows, checks) >= 0
            /\ ~(traffic_info.some /\ Len(traffic_info.val) = 0)
            /\ Board(cols, rows).kind = "ok"
            /\ DrawFailure(Buffer(Decrement(cols, checks), Decrement(rows, checks),
                                  Some(Board(cols, rows).table)))

\* main has returned an error and the process ends: the runtime flushes stdout
\* once more, and what a failed write left in its buffer is written, if the
\* terminal takes it now: the clear sequence of reset() clears the screen, the
\* end of a frame completes it
Exit ==
    /\ pc = "exited"
    /\ pc' = "ended"
    /\ \E written \in BOOLEAN :
        term' = IF written /\ term.pending = "clear"
                THEN [term EXCEPT !.op = "cleared", !.dims = NoFrame,
                                  !.pending = "nothing"]
                ELSE IF written /\ term.pending = "frame"
                THEN [term EXCEPT !.op = IF @ = "cleared" THEN "clear_redraw" ELSE "diff",
                                  !.dims = term.pending_dims,
                                  !.pending = "nothing", !.pending_dims = NoFrame]
                ELSE [term EXCEPT !.pending = "nothing", !.pending_dims = NoFrame]
    /\ UNCHANGED <<i, departures, traffic_info, prev_buf, now, failure, checks, call, ret>>

NextMain == Fetch \/ SubFrame \/ TerminalError \/ Exit

Spec == InitMain /\ [][NextMain]_vars

----------------------------------------------------------------------------
(* Specification of get_departure_board alone *)

BoardDeparture(k, c) ==
    [line |-> [name |-> 1, vehicle_type |-> "Tram"], time_planned |-> k, time_real |-> None,
     countdown |-> c, destination_name |-> 1, station_name |-> 1]

\* the sorted departure lists make_api_request can return, up to MaxBoardDeps
BoardDepartures ==
    UNION { { [k \in 1..n |-> BoardDeparture(k, f[k])] :
                f \in { g \in [1..n -> Countdowns] : \A k \in 1..(n - 1) : g[k] <= g[k + 1] } } :
            n \in 0..MaxBoardDeps }

Notes(n) == [k \in 1..n |-> [ok |-> TRUE, title |-> k, description |-> k]]

NoBoard == [kind |-> "none", table |-> [width |-> 0, rows |-> <<>>], error |-> ""]

InitBoard ==
    /\ Idle
    /\ checks \in BOOLEAN
    /\ pc = "call"
    /\ call \in [kind : {"board"},
                 departures : BoardDepartures,
                 trafficinfo : {None} \cup { Some(Notes(n)) : n \in 0..MaxNotes },
                 traffic_info_index : {None} \cup { Some(k) : k \in 0..MaxIndex },
                 width : 0..MaxBoardWidth,
                 height : 0..MaxBoardHeight]
    /\ ret = NoBoard

Format ==
    /\ pc = "call"
    /\ call.kind = "board"
    /\ ret' = get_departure_board(call.departures, call.trafficinfo, call.traffic_info_index,
                                  call.width, call.height, now, checks)
    /\ pc' = "done"
    /\ UNCHANGED call
    /\ IdleUnchanged

NextBoard == Format

SpecBoard == InitBoard /\ [][NextBoard]_vars

----------------------------------------------------------------------------
(* Specification of Buffer::get_diff alone *)

Chars == {"a", "b"}

Contents == UNION { [1..n -> Chars] : n \in 0..MaxCells }

Buffers == { Buffer(w, h, c) : w \in 0..MaxWidth, h \in 0..MaxHeight, c \in Contents }

NoDiff == [kind |-> "none", updates |-> <<>>]

InitDiff ==
    /\ Idle
    /\ checks \in BOOLEAN
    /\ pc = "call"
    /\ call \in { d \in [kind : {"diff"}, cur : Buffers, prev : Buffers] :
                    Len(d.cur.content) = Len(d.prev.content) }
    /\ ret = NoDiff

Diff ==
    /\ pc = "call"
    /\ call.kind = "diff"
    /\ ret' = get_diff(call.cur, call.prev)
    /\ pc' = "done"
    /\ UNCHANGED call
    /\ IdleUnchanged

NextDiff == Diff

SpecDiff == InitDiff /\ [][NextDiff]_vars

----------------------------------------------------------------------------
(* Properties of the normalizer *)

Range(seq) == { seq[k] : k \in 1..Len(seq) }

WellFormedMonitors(p) ==
    /\ p.hasMonitors
    /\ \A m \in 1..Len(p.monitors) :
        /\ p.monitors[m].stopOk
        /\ p.monitors[m].hasLines
        /\ \A l \in 1..Len(p.monitors[m].lines) :
            /\ p.monitors[m].lines[l].shapeOk
            /\ p.monitors[m].lines[l].type \in {"ptTram", "ptMetro", "ptBusCity", "ptBusNight"}

MalformedMonitor(p) ==
    /\ p.hasMonitors
    /\ \E m \in 1..Len(p.monitors) : ~p.monitors[m].stopOk \/ ~p.monitors[m].hasLines

\* the raw departures of a payload as <<monitor, line, departure, countdown>>
RawDepartures(p) ==
    { <<t[1], t[2], t[3], p.monitors[t[1]].lines[t[2]].departures[t[3]].countdown>> :
        t \in { u \in (1..Len(p.monitors)) \X (1..MaxEntries) \X (1..MaxEntries) :
                    /\ u[2] <= Len(p.monitors[u[1]].lines)
                    /\ u[3] <= Len(p.monitors[u[1]].lines[u[2]].departures) } }

\* document order of two raw departures
Before(a, b) ==
    \/ a[1] < b[1]
    \/ a[1] = b[1] /\ a[2] < b[2]
    \/ a[1] = b[1] /\ a[2] = b[2] /\ a[3] < b[3]

Origin(dep) == <<dep.station_name, dep.line.name, dep.time_planned, dep.countdown>>

Normalized == pc = "done" /\ call.kind = "json" /\ ret.kind = "ok"

\* C2: the departures returned by make_api_request are the payload's
\* departures, countdowns unchanged, ordered by countdown ascending, and
\* departures of equal countdown keep their (monitor, line, departure) order
SortTotality ==
    Normalized =>
        LET d == ret.departures
        IN /\ \A k \in 1..(Len(d) - 1) : d[k].countdown <= d[k + 1].countdown
           /\ { Origin(d[k]) : k \in 1..Len(d) } = RawDepartures(call)
           /\ Len(d) = Cardinality(RawDepartures(call))
           /\ \A j, k \in 1..Len(d) :
                (j < k /\ d[j].countdown = d[k].countdown) => Before(Origin(d[j]), Origin(d[k]))

\* a payload whose departures arrive unsorted, with a tie and a negative countdown
SortTotalityWitness ==
    /\ Normalized
    /\ Len(ret.departures) >= 3
    /\ ret.departures # Flatten(call.monitors)
    /\ ret.departures[1].countdown < 0
    /\ \E k \in 1..(Len(ret.departures) - 1) :
            ret.departures[k].countdown = ret.departures[k + 1].countdown

\* C3: a malformed traffic note with well-formed monitors gives the full
\* sorted departure list and no traffic notes at all; a malformed monitor
\* gives no departure list
LeniencyAsymmetry ==
    (pc = "done" /\ call.kind = "json") =>
        /\ (call.hasTraffic /\ (\E n \in Range(call.trafficInfos) : ~n.ok) /\ WellFormedMonitors(call))
            => /\ ret.kind = "ok"
               /\ ret.traffic_info = None
               /\ Len(ret.departures) = Cardinality(RawDepartures(call))
               /\ \A k \in 1..(Len(ret.departures) - 1) :
                    ret.departures[k].countdown <= ret.departures[k + 1].countdown
        /\ MalformedMonitor(call) => ret.kind # "ok"

\* one good and one bad traffic note behind a monitor with a departure
LeniencyAsymmetryWitness ==
    /\ pc = "done" /\ call.kind = "json"
    /\ WellFormedMonitors(call)
    /\ \E n \in Range(call.trafficInfos) : ~n.ok
    /\ \E n \in Range(call.trafficInfos) : n.ok
    /\ ret.kind = "ok" /\ ret.traffic_info = None /\ ret.departures # <<>>

UnknownCodeLine(p) ==
    \E m \in 1..Len(p.monitors) : \E l \in 1..Len(p.monitors[m].lines) :
        /\ p.monitors[m].lines[l].type \notin {"ptTram", "ptMetro", "ptBusCity", "ptBusNight"}
        /\ p.monitors[m].lines[l].departures # <<>>

WrongShapeLine(p) ==
    \E m \in 1..Len(p.monitors) : \E l \in 1..Len(p.monitors[m].lines) :
        ~p.monitors[m].lines[l].shapeOk

\* C4: every normalization failure is an error value returned by
\* make_api_request: an unknown vehicle-type code gives UnknownVehicleCode
\* with that code, a line of the wrong shape gives a malformed-value error
NormalizationFailuresAreErrors ==
    (pc = "done" /\ call.kind = "json" /\ call.hasMonitors /\ ~MalformedMonitor(call)) =>
        /\ ret.kind \in {"ok", "err"}
        /\ (UnknownCodeLine(call) /\ ~WrongShapeLine(call))
            => (ret.kind = "err" /\ ret.error = "UnknownVehicleCode" /\ ret.detail = "ptFerry")
        /\ WrongShapeLine(call) => (ret.kind = "err" /\ ret.error = "MalformedValue")

----------------------------------------------------------------------------
(* Properties of the board formatter *)

FooterCall ==
    /\ pc = "done" /\ call.kind = "board"
    /\ call.traffic_info_index.some
    /\ call.trafficinfo.some /\ call.trafficinfo.val # <<>>

\* the body rows are laid out without running below zero (see C8)
BodyCompletes == call.height >= ReservedRows /\ Len(call.departures) >= call.height - ReservedRows

FooterOf(table) == table.rows[Len(table.rows)]

\* C6 as claimed: for notes of length n and any index k the footer shows the
\* note at position k mod n with label ((k mod n) + 1)/n
FooterRotationModulo ==
    (FooterCall /\ BodyCompletes) =>
        LET n == Len(call.trafficinfo.val)
            k == call.traffic_info_index.val
        IN /\ ret.kind = "ok"
           /\ FooterOf(ret.table).note = Some(call.trafficinfo.val[(k % n) + 1])
           /\ FooterOf(ret.table).label = <<(k % n) + 1, n>>

\* C6 as amended: get_departure_board takes the index as it is: a table is
\* returned only for k < n, its footer then shows the note at position k with
\* label (k + 1)/n; for k >= n no table is returned, and the call ends in
\* IndexOutOfBoundsError once the body rows are laid out
FooterRotation ==
    FooterCall =>
        LET n == Len(call.trafficinfo.val)
            k == call.traffic_info_index.val
        IN /\ ret.kind = "ok" =>
                /\ k < n
                /\ FooterOf(ret.table).kind = "footer"
                /\ FooterOf(ret.table).note = Some(call.trafficinfo.val[k + 1])
                /\ FooterOf(ret.table).label = <<k + 1, n>>
           /\ k >= n => ret.kind # "ok"
           /\ BodyCompletes => ret.kind = (IF k < n THEN "ok" ELSE "err")
           /\ ret.kind = "err" => (k >= n /\ ret.error = "IndexOutOfBoundsError")

\* the third of three notes is shown as 3/3 under a departure row
FooterRotationWitness ==
    /\ FooterCall
    /\ Len(call.trafficinfo.val) = 3 /\ call.traffic_info_index.val = 2
    /\ ret.kind = "ok"
    /\ FooterOf(ret.table).label = <<3, 3>>
    /\ \E r \in 1..Len(ret.table.rows) : ret.table.rows[r].kind = "departure"

BlankRowsOf(table) == Cardinality({ r \in 1..Len(table.rows) : table.rows[r].kind = "blank" })
DataRowsOf(table) == SelectSeq(table.rows, LAMBDA r : r.kind = "departure")

\* C8: for height >= 6 and fewer departures than rows available, the table
\* is returned with (height - 5) - departures blank rows after the departure
\* rows; more departures than floor((height - 5) / 3) are cut to that many
BodyPadding ==
    (pc = "done" /\ call.kind = "board" /\ ~call.traffic_info_index.some /\ call.height >= 6) =>
        LET avail == call.height - ReservedRows
            n == Len(call.departures)
            shown == Min(n, avail \div RowHeight)
        IN /\ n < avail =>
                /\ ret.kind = "ok"
                /\ BlankRowsOf(ret.table) = avail - n
                /\ Len(ret.table.rows) = 1 + shown + (avail - n) + 1
           /\ ret.kind = "ok" =>
                DataRowsOf(ret.table) = [k \in 1..shown |-> DepartureRow(call.departures[k])]

----------------------------------------------------------------------------
(* Properties of the frame differ *)

\* the point write of one update at row-major index y * width + x
PointWrite(cells, update, width) ==
    LET index == update[2] * width + update[1]
    IN IF index + 1 \in 1..Len(cells) THEN [cells EXCEPT ![index + 1] = update[3]] ELSE cells

RECURSIVE ApplyUpdates(_, _, _)
ApplyUpdates(cells, updates, width) ==
    IF updates = <<>> THEN cells
    ELSE ApplyUpdates(PointWrite(cells, updates[1], width), Tail(updates), width)

\* the indices (from 0) at which the cells of the two buffers of a call differ
Differing(c) ==
    { k \in 0..(Min(Len(c.cur.content), Len(c.prev.content)) - 1) :
        c.cur.content[k + 1] # c.prev.content[k + 1] }

\* C1: for buffers of equal width and height, get_diff returns one update
\* (index mod width, index / width, current cell) for each index at which the
\* cells differ, and the updates written into a copy of the previous cells
\* give the current cells
DiffCorrectness ==
    (pc = "done" /\ call.kind = "diff"
        /\ call.cur.width = call.prev.width /\ call.cur.height = call.prev.height) =>
        /\ ret.kind = "ok"
        /\ Range(ret.updates) =
            { <<k % call.cur.width, k \div call.cur.width, call.cur.content[k + 1]>> : k \in Differing(call) }
        /\ ApplyUpdates(call.prev.content, ret.updates, call.cur.width) = call.cur.content

----------------------------------------------------------------------------
(* Properties of the refresh loop *)

\* C7: get_diff is called only on buffers of equal width and height, and the
\* screen is cleared and redrawn exactly when width or height differ
ResizeDetection ==
    /\ term.op \in {"diff", "diff_panicked", "diff_failed"} => ~term.resized
    /\ term.op \in {"clear_redraw", "cleared", "reset_failed"} => term.resized

\* a sub-frame after the first of its cycle is redrawn in full
ResizeDetectionWitness ==
    /\ pc = "subframe" /\ i >= 3
    /\ term.op = "clear_redraw"

\* C5: no transport, parse or normalization error ends the loop
FetchErrorsKeepLooping ==
    ~(pc = "exited" /\ failure \in {"ApiReqFailed", "JsonParsingFailed", "MissingField"})

\* C9: the screen is cleared and redrawn only when the size differs from the
\* frame shown before (the first frame ever shown differs from no frame)
RedrawOnlyOnResize ==
    term.op = "clear_redraw" => term.changed

\* C10: with an empty list of traffic notes the sub-frames fail no more than
\* with the traffic section absent
EmptyTrafficNotesRender ==
    (traffic_info.some /\ traffic_info.val = <<>>) =>
        ~(pc = "panicked" /\ failure = "traffic_info_index")

====
